---- MODULE Spec2Model ----
(***************************************************************************)
(* Model of the CSV validation engine of csv-validator-project-v2:         *)
(* the CsvProcessorJS class (src/www/src/App.jsx, lines 23-97), the        *)
(* dashboard handlers that drive it (ErrorDashboard, src/unnamed/part_000; *)
(* DataAirlock.handleBulkFix, src/www/src/App.jsx) and the load path of    *)
(* the App (loadWasm, handleValidate and its timer).                       *)
(*                                                                         *)
(* Spec starts from a constructed processor and explores fixes and         *)
(* exports; LoadSpec starts from the mounted App and explores loading.     *)
(*                                                                         *)
(* A JavaScript string is modelled as a sequence of one-character strings, *)
(* so that trim, split, join, parseFloat and the regular-expression test   *)
(* are computed the way the code computes them.                            *)
(***************************************************************************)
EXTENDS Integers, Sequences, FiniteSets, TLC

VARIABLES csvData, rulesData, wasmModule, error, timers, reads, isProcessing,
          processor, summary, fixReturn, exported, lastOp, pre, nfix

vars == <<csvData, rulesData, wasmModule, error, timers, reads, isProcessing,
          processor, summary, fixReturn, exported, lastOp, pre, nfix>>

\* The state of the App component, as opposed to that of the dashboard.
appVars == <<csvData, rulesData, wasmModule, error, timers, reads, isProcessing>>

(***************************************************************************)
(* Bounds of the model.                                                    *)
(***************************************************************************)
MaxRecords == 2
MaxFixes == 2

(***************************************************************************)
(* Strings.                                                                *)
(***************************************************************************)
EmptyStr == <<>>
Comma == ","
Newline == "\n"
WhiteSpace == {" ", "\n", "\r", "\t"}
Digits == {"0", "1", "2", "3", "4", "5", "6", "7", "8", "9"}

\* The empty JavaScript object {} (and the empty array).
EmptyObj == <<>>

\* obj[k] = v on a JavaScript object: the key is added or overwritten.
Put(obj, k, v) == [x \in (DOMAIN obj) \cup {k} |-> IF x = k THEN v ELSE obj[x]]

\* String.prototype.trimStart / trim: strip leading (and trailing) white
\* space.
NonSpace(s) == {i \in 1..Len(s) : s[i] \notin WhiteSpace}

First(S) == CHOOSE i \in S : \A j \in S : i <= j
Last(S) == CHOOSE i \in S : \A j \in S : j <= i

trimStart(s) ==
    IF NonSpace(s) = {} THEN <<>> ELSE SubSeq(s, First(NonSpace(s)), Len(s))

trim(s) ==
    IF NonSpace(s) = {} THEN <<>> ELSE SubSeq(s, First(NonSpace(s)), Last(NonSpace(s)))

\* String.prototype.split on a one-character separator: n separators cut
\* the string into n + 1 pieces (the empty string yields one empty piece).
\* Piece k lies between the (k-1)-th and the k-th separator.
split(s, sep) ==
    LET seps == {i \in 1..Len(s) : s[i] = sep}
        starts == seps \cup {0}
        ends == seps \cup {Len(s) + 1}
        kth(S, k) == CHOOSE p \in S : Cardinality({q \in S : q < p}) = k - 1
    IN  [k \in 1..(Cardinality(seps) + 1) |->
            SubSeq(s, kth(starts, k) + 1, kth(ends, k) - 1)]

\* Variant: empty pieces are left out of the joined string.
RECURSIVE join_skipEmpty(_, _)
join_skipEmpty(pieces, sep) ==
    IF pieces = <<>> THEN <<>>
    ELSE IF pieces[1] = <<>> THEN join_skipEmpty(Tail(pieces), sep)
    ELSE LET rest == join_skipEmpty(Tail(pieces), sep)
         IN  IF rest = <<>> THEN pieces[1] ELSE pieces[1] \o <<sep>> \o rest

\* Array.prototype.join with a one-character separator.
RECURSIVE join(_, _)
join(pieces, sep) ==
    IF pieces = <<>> THEN <<>>
    ELSE IF Len(pieces) = 1 THEN pieces[1]
    ELSE pieces[1] \o <<sep>> \o join(Tail(pieces), sep)

\* Array.prototype.indexOf, 1-based; 0 stands for JavaScript's -1.
indexOf(arr, x) ==
    IF \E i \in 1..Len(arr) : arr[i] = x
    THEN CHOOSE i \in 1..Len(arr) : arr[i] = x /\ \A j \in 1..(i - 1) : arr[j] # x
    ELSE 0

\* Variant: the value is trimmed before it is looked up.
includes_trimmed(arr, x) == \E i \in 1..Len(arr) : arr[i] = trim(x)

\* Array.prototype.includes.
includes(arr, x) == \E i \in 1..Len(arr) : arr[i] = x

\* /@/.test(val): the string contains an @ anywhere.
testAt(val) == \E i \in 1..Len(val) : val[i] = "@"

(***************************************************************************)
(* parseFloat.  NaN is the empty tuple, a finite number n is <<n>>, and    *)
(* Infinity is a pair.  After leading white space the literal Infinity     *)
(* parses to Infinity; otherwise the value is the longest prefix of        *)
(* decimal digits.  This is what parseFloat returns for every string of    *)
(* the model's alphabet, which has no sign, decimal point or exponent      *)
(* directly before or after digits.                                        *)
(***************************************************************************)
NaN == <<>>
Infinity == <<"1", "0">>
str_Infinity == <<"I", "n", "f", "i", "n", "i", "t", "y">>

\* n < m and n > m for a parsed value n that is not NaN and a finite bound m.
lt(n, m) == Len(n) = 1 /\ n[1] < m[1]
gt(n, m) == Len(n) = 2 \/ n[1] > m[1]

DigitVal(c) ==
    CASE c = "0" -> 0 [] c = "1" -> 1 [] c = "2" -> 2 [] c = "3" -> 3
      [] c = "4" -> 4 [] c = "5" -> 5 [] c = "6" -> 6 [] c = "7" -> 7
      [] c = "8" -> 8 [] c = "9" -> 9

RECURSIVE digitPrefix(_, _, _)
digitPrefix(s, seen, acc) ==
    IF s # <<>> /\ Head(s) \in Digits
    THEN digitPrefix(Tail(s), TRUE, 10 * acc + DigitVal(Head(s)))
    ELSE IF seen THEN <<acc>> ELSE NaN

parseFloat(val) ==
    LET s == trimStart(val)
    IN  IF Len(s) >= 8 /\ SubSeq(s, 1, 8) = str_Infinity THEN Infinity
        ELSE digitPrefix(s, FALSE, 0)

(***************************************************************************)
(* Rules.  A rule object carries the fields the code reads: type, min,     *)
(* max, options, and the pattern the rule builder stores in a regex rule;  *)
(* a field the JSON leaves out is undefined.                               *)
(***************************************************************************)
undefined == <<>>

Rule(type, min, max, options) ==
    [type |-> type, min |-> min, max |-> max, options |-> options,
     pattern |-> undefined]

\* The error kinds the aggregator emits, and "no error" (errType = null).
null == "null"

(***************************************************************************)
(* new CsvProcessorJS(csvData, rulesJson).  rules is the value             *)
(* JSON.parse(rulesJson) returns: a sequence of {column, rules} objects.   *)
(***************************************************************************)
RECURSIVE buildRuleMap(_, _, _)
buildRuleMap(rules, i, ruleMap) ==
    IF i > Len(rules) THEN ruleMap
    ELSE buildRuleMap(rules, i + 1, Put(ruleMap, rules[i].column, rules[i].rules))

CsvProcessorJS(csv, rules) ==
    LET lines == split(trim(csv), Newline)
        rows == [i \in 1..Len(lines) |-> split(lines[i], Comma)]
    IN  [headers |-> rows[1],
         records |-> SubSeq(rows, 2, Len(rows)),
         rules   |-> rules,
         ruleMap |-> buildRuleMap(rules, 1, EmptyObj)]

(***************************************************************************)
(* get_error_summary.                                                      *)
(***************************************************************************)
\* Variant: an empty value is reported by the notempty rule only; the other
\* rules of the chain skip it.
RuleError_emptyOnly(rule, val) ==
    IF val = EmptyStr THEN (IF rule.type = "notempty" THEN "Required" ELSE null)
    ELSE IF rule.type = "number" THEN
        LET n == parseFloat(val)
        IN  IF n = NaN THEN "Not a Number"
            ELSE IF rule.min # undefined /\ lt(n, rule.min) THEN "Min Value"
            ELSE IF rule.max # undefined /\ gt(n, rule.max) THEN "Max Value"
            ELSE null
    ELSE IF rule.type = "email" /\ ~testAt(val) THEN "Invalid Email"
    ELSE IF rule.type = "oneof" /\ ~includes(rule.options, val) THEN "Invalid Option"
    ELSE null

\* Variant: no isNaN test; a value that does not parse fails the min test.
RuleError_nanAsMin(rule, val) ==
    IF rule.type = "notempty" /\ val = EmptyStr THEN "Required"
    ELSE IF rule.type = "number" THEN
        LET n == parseFloat(val)
        IN  IF rule.min # undefined /\ (n = NaN \/ lt(n, rule.min)) THEN "Min Value"
            ELSE IF rule.max # undefined /\ n # NaN /\ gt(n, rule.max) THEN "Max Value"
            ELSE null
    ELSE IF rule.type = "email" /\ ~testAt(val) THEN "Invalid Email"
    ELSE IF rule.type = "oneof" /\ ~includes(rule.options, val) THEN "Invalid Option"
    ELSE null

\* The if / else-if chain that sets errType for one rule and one value.
RuleError(rule, val) ==
    IF rule.type = "notempty" /\ val = EmptyStr THEN "Required"
    ELSE IF rule.type = "number" THEN
        LET n == parseFloat(val)
        IN  IF n = NaN THEN "Not a Number"
            ELSE IF rule.min # undefined /\ lt(n, rule.min) THEN "Min Value"
            ELSE IF rule.max # undefined /\ gt(n, rule.max) THEN "Max Value"
            ELSE null
    ELSE IF rule.type = "email" /\ ~testAt(val) THEN "Invalid Email"
    ELSE IF rule.type = "oneof" /\ ~includes(rule.options, val) THEN "Invalid Option"
    ELSE null

\* Variant: total++ sits inside the branch that stores the first example.
RecordError_totalOnFirst(acc, colName, errType, val) ==
    LET st == IF colName \in DOMAIN acc.stats THEN acc.stats[colName] ELSE EmptyObj
        cnt == IF errType \in DOMAIN st THEN st[errType] ELSE 0
        ex == IF colName \in DOMAIN acc.examples THEN acc.examples[colName] ELSE EmptyObj
        unset == errType \notin DOMAIN ex \/ ex[errType] = EmptyStr
    IN  [stats |-> Put(acc.stats, colName, Put(st, errType, cnt + 1)),
         examples |-> Put(acc.examples, colName,
                          IF unset THEN Put(ex, errType, val) ELSE ex),
         total_errors |-> IF unset THEN acc.total_errors + 1 ELSE acc.total_errors]

\* if (errType) { total++; stats[..]++; first example }.  The example slot
\* counts as unset when it is missing or holds the empty string, since the
\* code tests it with !examples[colName][errType].
RecordError(acc, colName, errType, val) ==
    LET st == IF colName \in DOMAIN acc.stats THEN acc.stats[colName] ELSE EmptyObj
        cnt == IF errType \in DOMAIN st THEN st[errType] ELSE 0
        ex == IF colName \in DOMAIN acc.examples THEN acc.examples[colName] ELSE EmptyObj
        unset == errType \notin DOMAIN ex \/ ex[errType] = EmptyStr
    IN  [stats |-> Put(acc.stats, colName, Put(st, errType, cnt + 1)),
         examples |-> Put(acc.examples, colName,
                          IF unset THEN Put(ex, errType, val) ELSE ex),
         total_errors |-> acc.total_errors + 1]

\* The body of rules.forEach for one rule.
EvalRule(acc, colName, rule, val) ==
    LET errType == RuleError(rule, val)
    IN  IF errType # null THEN RecordError(acc, colName, errType, val) ELSE acc

RECURSIVE forEachRule(_, _, _, _, _)
forEachRule(acc, colName, rules, val, i) ==
    IF i > Len(rules) THEN acc
    ELSE forEachRule(EvalRule(acc, colName, rules[i], val), colName, rules, val, i + 1)

\* The body of row.forEach for one cell.  headers[colIdx] is undefined for
\* a cell beyond the header, and an object indexed by undefined is indexed
\* by the property name "undefined": this is the key such a cell looks up
\* in ruleMap and counts under in stats and examples.
str_undefined == <<"u", "n", "d", "e", "f", "i", "n", "e", "d">>

EvalCell(acc, p, row, colIdx) ==
    LET colName == IF colIdx > Len(p.headers) THEN str_undefined ELSE p.headers[colIdx]
    IN  IF colName \notin DOMAIN p.ruleMap THEN acc
        ELSE forEachRule(acc, colName, p.ruleMap[colName], row[colIdx], 1)

RECURSIVE forEachCell(_, _, _, _)
forEachCell(acc, p, row, colIdx) ==
    IF colIdx > Len(row) THEN acc
    ELSE forEachCell(EvalCell(acc, p, row, colIdx), p, row, colIdx + 1)

RECURSIVE forEachRecord(_, _, _)
forEachRecord(acc, p, i) ==
    IF i > Len(p.records) THEN acc
    ELSE forEachRecord(forEachCell(acc, p, p.records[i], 1), p, i + 1)

get_error_summary(p) ==
    forEachRecord([stats |-> EmptyObj, examples |-> EmptyObj, total_errors |-> 0], p, 1)

count_total_errors(p) == get_error_summary(p).total_errors

(***************************************************************************)
(* apply_bulk_fix: the processor after the call and the returned count.    *)
(* A row shorter than the column has row[colIdx] undefined, which is never *)
(* equal to the string findVal.                                            *)
(***************************************************************************)
\* Variant: the comparison folds case.
toLowerCase(s) ==
    [i \in 1..Len(s) |-> IF s[i] = "X" THEN "x" ELSE IF s[i] = "B" THEN "b" ELSE s[i]]

FixRow_caseFold(row, colIdx, findVal, replaceVal) ==
    IF colIdx <= Len(row) /\ toLowerCase(row[colIdx]) = toLowerCase(findVal)
    THEN [row EXCEPT ![colIdx] = replaceVal]
    ELSE row

FixRow(row, colIdx, findVal, replaceVal) ==
    IF colIdx <= Len(row) /\ row[colIdx] = findVal
    THEN [row EXCEPT ![colIdx] = replaceVal]
    ELSE row

\* Variant: the count is taken before the cells are rewritten.
apply_bulk_fix_staleCount(p, colName, findVal, replaceVal) ==
    LET colIdx == indexOf(p.headers, colName)
    IN  IF colIdx = 0 THEN [proc |-> p, ret |-> count_total_errors(p)]
        ELSE [proc |-> [p EXCEPT !.records =
                          [i \in 1..Len(p.records) |->
                              FixRow(p.records[i], colIdx, findVal, replaceVal)]],
              ret |-> count_total_errors(p)]

\* Variant: the loop stops after the first record it rewrites.
apply_bulk_fix_firstOnly(p, colName, findVal, replaceVal) ==
    LET colIdx == indexOf(p.headers, colName)
        hits == {i \in 1..Len(p.records) :
                    FixRow(p.records[i], colIdx, findVal, replaceVal) # p.records[i]}
    IN  IF colIdx = 0 THEN [proc |-> p, ret |-> count_total_errors(p)]
        ELSE LET q == [p EXCEPT !.records =
                          [i \in 1..Len(p.records) |->
                              IF hits # {} /\ i = First(hits)
                              THEN FixRow(p.records[i], colIdx, findVal, replaceVal)
                              ELSE p.records[i]]]
             IN  [proc |-> q, ret |-> count_total_errors(q)]

\* Variant: no early return; a column that is not found is clamped to the
\* first one.
apply_bulk_fix_clamp(p, colName, findVal, replaceVal) ==
    LET found == indexOf(p.headers, colName)
        colIdx == IF found = 0 THEN 1 ELSE found
        q == [p EXCEPT !.records =
                 [i \in 1..Len(p.records) |->
                     FixRow(p.records[i], colIdx, findVal, replaceVal)]]
    IN  [proc |-> q, ret |-> count_total_errors(q)]

apply_bulk_fix(p, colName, findVal, replaceVal) ==
    LET colIdx == indexOf(p.headers, colName)
    IN  IF colIdx = 0 THEN [proc |-> p, ret |-> count_total_errors(p)]
        ELSE LET q == [p EXCEPT !.records =
                          [i \in 1..Len(p.records) |->
                              FixRow(p.records[i], colIdx, findVal, replaceVal)]]
             IN  [proc |-> q, ret |-> count_total_errors(q)]

(***************************************************************************)
(* generate_split_export.                                                  *)
(***************************************************************************)
str_Error_Reason == <<",", "E", "r", "r", "o", "r", "_", "R", "e", "a", "s", "o", "n">>

\* Variant: the valid output takes only the records without an error, the
\* invalid output is still never filled.
generate_split_export_validOnly(p) ==
    LET clean(i) == get_error_summary([p EXCEPT !.records = <<p.records[i]>>]).total_errors = 0
        rows == [i \in 1..Len(p.records) |-> join(p.records[i], Comma)]
        keep == {i \in 1..Len(rows) : clean(i)}
        kth(k) == CHOOSE i \in keep : Cardinality({j \in keep : j < i}) = k - 1
        valid == <<join(p.headers, Comma)>> \o [k \in 1..Cardinality(keep) |-> rows[kth(k)]]
        invalid == <<join(p.headers, Comma) \o str_Error_Reason>>
    IN  [valid |-> join(valid, Newline), invalid |-> join(invalid, Newline)]

\* Variant: the extra header column is written to both outputs.
generate_split_export_reasonInBoth(p) ==
    LET valid == <<join(p.headers, Comma) \o str_Error_Reason>> \o
                 [i \in 1..Len(p.records) |-> join(p.records[i], Comma)]
        invalid == <<join(p.headers, Comma) \o str_Error_Reason>>
    IN  [valid |-> join(valid, Newline), invalid |-> join(invalid, Newline)]

generate_split_export(p) ==
    LET valid == <<join(p.headers, Comma)>> \o
                 [i \in 1..Len(p.records) |-> join(p.records[i], Comma)]
        invalid == <<join(p.headers, Comma) \o str_Error_Reason>>
    IN  [valid |-> join(valid, Newline), invalid |-> join(invalid, Newline)]

(***************************************************************************)
(* String literals of the inputs.                                          *)
(***************************************************************************)
str_a == <<"a">>
str_b == <<"b">>
str_zz == <<"z", "z">>
str_x == <<"x">>
str_X == <<"X">>
str_3 == <<"3">>
str_9 == <<"9">>
str_xAt == <<"x", "@">>
str_name == <<"n", "a", "m", "e">>
str_age == <<"a", "g", "e">>
str_email == <<"e", "m", "a", "i", "l">>
str_role == <<"r", "o", "l", "e">>
str_admin == <<"a", "d", "m", "i", "n">>
str_user == <<"u", "s", "e", "r">>
str_guest == <<"g", "u", "e", "s", "t">>

\* Header lines and record lines the input texts are built from: two
\* distinct columns or one name twice; full rows, a short row, a long row.
HeaderLines == {<<"a", ",", "b">>, <<"a", ",", "a">>}

RecordLines == {<<",", "x">>, <<"3", ",", "@">>, <<"9", ",", "X", ",", "x">>, <<"1">>}

RECURSIVE SeqsUpTo(_, _)
SeqsUpTo(S, n) ==
    IF n = 0 THEN {<<>>}
    ELSE LET shorter == SeqsUpTo(S, n - 1)
         IN  shorter \cup {Append(t, x) : t \in {u \in shorter : Len(u) = n - 1}, x \in S}

GenericCsv ==
    {join(<<h>> \o recs, Newline) : h \in HeaderLines, recs \in SeqsUpTo(RecordLines, MaxRecords)}

\* The table of the aggregation example: name,age,email,role with the
\* records (,abc,,x) and (Bob,24,bob@example.com,user).
EXAMPLE_CSV == <<"n", "a", "m", "e", ",", "a", "g", "e", ",", "e", "m", "a", "i", "l", ",", "r", "o", "l", "e", "\n", ",", "a", "b", "c", ",", ",", "x", "\n", "B", "o", "b", ",", "2", "4", ",", "b", "o", "b", "@", "e", "x", "a", "m", "p", "l", "e", ".", "c", "o", "m", ",", "u", "s", "e", "r">>

notempty == Rule("notempty", undefined, undefined, undefined)
number(min, max) == Rule("number", min, max, undefined)
email == Rule("email", undefined, undefined, undefined)
oneof(options) == Rule("oneof", undefined, undefined, options)
regex(pattern) == [Rule("regex", undefined, undefined, undefined) EXCEPT !.pattern = pattern]

\* The pattern addRuleToColumn gives a new regex rule: ^[a-z]+$.
DefaultPattern == <<"^", "[", "a", "-", "z", "]", "+", "$">>

ColumnRules(column, rules) == [column |-> column, rules |-> rules]

SAMPLE_RULES ==
    << ColumnRules(str_name, <<notempty>>),
       ColumnRules(str_age, <<notempty, number(<<18>>, <<100>>)>>),
       ColumnRules(str_email, <<email>>),
       ColumnRules(str_role, <<oneof(<<str_admin, str_user, str_guest>>)>>) >>

\* Rule sets for the generic tables: a chain of two rules, a column that is
\* not in the headers, a column listed twice (the later entry replaces the
\* earlier one) and a rule type the aggregator does not know.
GenericRules ==
    { << ColumnRules(str_a, <<notempty, number(<<2>>, <<5>>)>>),
         ColumnRules(str_b, <<email>>) >>,
      << ColumnRules(str_a, <<oneof(<<str_x, str_3>>)>>),
         ColumnRules(str_b, <<notempty>>),
         ColumnRules(str_zz, <<notempty>>) >>,
      << ColumnRules(str_a, <<notempty>>),
         ColumnRules(str_a, <<number(<<2>>, undefined), email>>),
         ColumnRules(str_b, <<regex(DefaultPattern), oneof(<<str_X>>)>>) >> }

\* What the operator can type into the find / replace boxes (text inputs,
\* which hold no line break) for which column.
FixArgs ==
    { <<str_a, str_9, str_3>>,
      <<str_a, EmptyStr, str_x>>,
      <<str_b, str_x, str_xAt>>,
      <<str_zz, str_9, str_3>> }

(***************************************************************************)
(* State.                                                                  *)
(*   csvData    the text of the CSV box (the text the processor was built  *)
(*              from, as no action of the model edits it)                  *)
(*   rulesData  the text of the rules box, as what JSON.parse makes of it  *)
(*   wasmModule TRUE once the engine module is set                         *)
(*   error      <<>> for null, <<msg>> for the message the App shows       *)
(*   timers     the timers that have not fired yet, each with the values   *)
(*              its closure captured, and (for the App) with the note      *)
(*              whether the App was reset after the timer was set          *)
(*   reads      the file reads (FileReader.readAsText) that have not       *)
(*              completed yet, each with the text of its file              *)
(*   isProcessing  the isProcessing state of DataAirlock                   *)
(*   processor  the CsvProcessorJS object, NullProcessor for null          *)
(*   summary    the summary state of the dashboard                         *)
(*   fixReturn  <<n>> for the value the last apply_bulk_fix returned       *)
(*   exported   <<r>> for the result of the last generate_split_export     *)
(*   lastOp     the processor method called last and its arguments         *)
(*   pre        headers, records, summary and lastOp before the last fix   *)
(*   nfix       the number of fixes applied                                *)
(***************************************************************************)
NoOp == [op |-> "construct", col |-> EmptyStr, find |-> EmptyStr, replace |-> EmptyStr]

\* processor === null.  A constructed processor has at least one header
\* (split never returns an empty array), so this value is no processor.
NullProcessor == [headers |-> <<>>, records |-> <<>>, rules |-> <<>>, ruleMap |-> EmptyObj]

\* The summary shown while no dashboard is mounted: nothing.
NoSummary == [stats |-> EmptyObj, examples |-> EmptyObj, total_errors |-> 0]

\* The text of the rules box: JSON for the value, or text that is not JSON.
Json(value) == [valid |-> TRUE, value |-> value]
InvalidJson == [valid |-> FALSE, value |-> <<>>]

Init ==
    /\ \E input \in ((GenericCsv \X GenericRules) \cup {<<EXAMPLE_CSV, SAMPLE_RULES>>}) :
          /\ csvData = input[1]
          /\ rulesData = Json(input[2])
          /\ processor = CsvProcessorJS(input[1], input[2])
    /\ wasmModule = TRUE
    /\ error = <<>>
    /\ timers = <<>>
    /\ reads = <<>>
    /\ isProcessing = FALSE
    /\ summary = get_error_summary(processor)
    /\ fixReturn = <<>>
    /\ exported = <<>>
    /\ lastOp = NoOp
    /\ pre = [headers |-> processor.headers, records |-> processor.records,
              summary |-> summary, op |-> NoOp]
    /\ nfix = 0

\* The two calls both dashboards make: apply_bulk_fix, then a fresh
\* get_error_summary stored as the displayed summary.
FixAndRefresh(col, find, replace) ==
    LET r == apply_bulk_fix(processor, col, find, replace)
    IN  /\ processor' = r.proc
        /\ fixReturn' = <<r.ret>>
        /\ summary' = get_error_summary(r.proc)
        /\ pre' = [headers |-> processor.headers, records |-> processor.records,
                   summary |-> summary, op |-> lastOp]
        /\ lastOp' = [op |-> "apply_bulk_fix", col |-> col, find |-> find, replace |-> replace]
        /\ nfix' = nfix + 1

\* ErrorDashboard.handleApplyFix: offered for the columns of summary.stats;
\* returns at once when the find box is empty.
HandleApplyFix(col, find, replace) ==
    /\ processor # NullProcessor
    /\ nfix < MaxFixes
    /\ col \in DOMAIN summary.stats
    /\ find # EmptyStr
    /\ FixAndRefresh(col, find, replace)
    /\ UNCHANGED <<appVars, exported>>

\* DataAirlock.handleBulkFix: the column is the selected one, which need
\* not be a header any more.  CsvProcessorJS has no get_content_as_csv, so
\* the sync-back call throws, the catch logs it and csvData keeps its value.
HandleBulkFix(col, find, replace) ==
    /\ processor # NullProcessor
    /\ nfix < MaxFixes
    /\ FixAndRefresh(col, find, replace)
    /\ UNCHANGED <<appVars, exported>>

\* Variant: the export consumes the records it writes (this.records is
\* emptied while the rows are pushed).
HandleExport_draining(type) ==
    /\ processor # NullProcessor
    /\ exported' = <<generate_split_export(processor)>>
    /\ processor' = [processor EXCEPT !.records = <<>>]
    /\ lastOp' = [op |-> "generate_split_export", col |-> EmptyStr,
                  find |-> EmptyStr, replace |-> EmptyStr]
    /\ UNCHANGED <<appVars, summary, fixReturn, pre, nfix>>

\* ErrorDashboard.handleExport: type only selects which of the two texts of
\* the result is handed to the browser as a download.
HandleExport(type) ==
    /\ processor # NullProcessor
    /\ exported' = <<generate_split_export(processor)>>
    /\ lastOp' = [op |-> "generate_split_export", col |-> EmptyStr,
                  find |-> EmptyStr, replace |-> EmptyStr]
    /\ UNCHANGED <<appVars, processor, summary, fixReturn, pre, nfix>>

Next ==
    \/ \E f \in FixArgs : HandleApplyFix(f[1], f[2], f[3])
    \/ \E f \in FixArgs : HandleBulkFix(f[1], f[2], f[3])
    \/ \E type \in {"valid", "invalid"} : HandleExport(type)

Spec == Init /\ [][Next]_vars

(***************************************************************************)
(* Loading: the App from its mount to an installed processor.              *)
(***************************************************************************)
MaxTimers == 1

str_SyntaxError == <<"S", "y", "n", "t", "a", "x", "E", "r", "r", "o", "r">>
str_EngineNotLoaded == <<"E", "n", "g", "i", "n", "e", " ", "n", "o", "t", " ", "l", "o", "a", "d", "e", "d", ".">>

\* Texts of the CSV box: empty and blank text, blank and empty cells, cells
\* for the number and the email rule, quoted fields (with a comma, a doubled
\* quote, a line break), empty last fields, an empty record, a text that
\* ends with a line break, words for the pattern rule, a record longer and
\* one shorter than the header, records that end with carriage return and
\* line feed.
csv_empty == EmptyStr
csv_blank == <<" ">>
csv_spaces == <<"a", ",", "b", "\n", " ", ",", "x", "\n", ",", "X", "\n", "3", ",", " ", "x">>
csv_numbers == <<"a", ",", "b", "\n", "3", "x", ",", "@", "\n", "I", "n", "f", "i", "n", "i", "t", "y", ",", "@", "x", "\n", "2", ",", "x">>
csv_emails == <<"a", ",", "b", "\n", "3", ",", "x", "@", "y", "\n", "9", ",", "x", "@", "y", "@", "x", "\n", "5", ",", "x", "@">>
csv_quoted == <<"a", ",", "b", "\n", "\"", "x", ",", "y", "\"", ",", "z">>
csv_dquote == <<"a", ",", "b", "\n", "\"", "x", "\"", "\"", "y", "\"", ",", "z">>
csv_qnewline == <<"a", ",", "b", "\n", "\"", "x", "\n", "y", "\"", ",", "z">>
csv_lastEmpty == <<"a", ",", "b", "\n", "x", ",", "\n", ",">>
csv_emptyRecord == <<"a", "\n", "\n", "x">>
csv_blankField == <<"a", ",", "b", "\n", "x", ",", " ", "\n", "y", ",", "z", "\n">>
csv_words == <<"a", ",", "b", "\n", "a", "b", "c", ",", "x", "\n", "X", ",", "\n", "3", "x", ",", "x">>
csv_long == <<"a", ",", "b", "\n", "3", ",", "x", ",", "y", "\n", "9">>
csv_crlf == <<"a", ",", "b", "\r", "\n", "3", ",", "x", "\r", "\n", ",", "X", "\r", "\n">>

LoadCsv ==
    { csv_empty, csv_blank, csv_spaces, csv_numbers, csv_emails, csv_quoted,
      csv_dquote, csv_qnewline, csv_lastEmpty, csv_emptyRecord, csv_blankField,
      csv_words, csv_long, csv_crlf }

\* A pattern that is no regular expression: an unclosed group.
BadPattern == <<"(">>

\* A rule whose type no branch of the aggregator names.
unknownRule == Rule("foo", undefined, undefined, undefined)

\* Texts of the rules box: a chain with a number range, a number rule with
\* no bound, the builder's pattern rule, a pattern that does not compile,
\* an unknown rule type together with a column that is no header, an entry
\* for a column named undefined, and text that is not JSON.
LoadRules ==
    { Json(<< ColumnRules(str_a, <<notempty, number(<<2>>, <<5>>)>>),
              ColumnRules(str_b, <<email>>) >>),
      Json(<< ColumnRules(str_a, <<number(undefined, undefined)>>),
              ColumnRules(str_b, <<notempty, oneof(<<str_x>>)>>) >>),
      Json(<< ColumnRules(str_a, <<regex(DefaultPattern)>>),
              ColumnRules(str_b, <<oneof(<<str_x>>)>>) >>),
      Json(<< ColumnRules(str_a, <<regex(BadPattern)>>),
              ColumnRules(str_b, <<notempty>>) >>),
      Json(<< ColumnRules(str_a, <<unknownRule, notempty>>),
              ColumnRules(str_zz, <<notempty>>),
              ColumnRules(str_b, <<unknownRule, oneof(<<str_x>>)>>) >>),
      Json(<< ColumnRules(str_a, <<notempty>>),
              ColumnRules(str_undefined, <<email>>) >>),
      InvalidJson }

\* The App after its first render: the sample boxes replaced by one of the
\* texts above, no engine yet, no processor, no dashboard.
LoadInit ==
    /\ csvData \in LoadCsv
    /\ rulesData \in LoadRules
    /\ wasmModule = FALSE
    /\ error = <<>>
    /\ timers = <<>>
    /\ reads = <<>>
    /\ isProcessing = FALSE
    /\ processor = NullProcessor
    /\ summary = NoSummary
    /\ fixReturn = <<>>
    /\ exported = <<>>
    /\ lastOp = [NoOp EXCEPT !.op = "mount"]
    /\ pre = [headers |-> <<>>, records |-> <<>>, summary |-> NoSummary, op |-> NoOp]
    /\ nfix = 0

\* The loadWasm effect: the wasm module, or the fallback object whose
\* CsvProcessor is CsvProcessorJS.
LoadWasm ==
    /\ ~wasmModule
    /\ wasmModule' = TRUE
    /\ UNCHANGED <<csvData, rulesData, error, timers, reads, isProcessing, processor, summary,
                   fixReturn, exported, lastOp, pre, nfix>>

\* handleValidate: without an engine only the error is set; with one the
\* error and the processor are cleared (which unmounts the dashboard) and a
\* timer is set whose closure holds the current csvData and rulesData.
HandleValidate ==
    IF ~wasmModule
    THEN /\ error' = <<str_EngineNotLoaded>>
         /\ UNCHANGED <<csvData, rulesData, wasmModule, timers, reads, isProcessing,
                        processor, summary,
                        fixReturn, exported, lastOp, pre, nfix>>
    ELSE /\ Len(timers) < MaxTimers
         /\ error' = <<>>
         /\ processor' = NullProcessor
         /\ summary' = NoSummary
         /\ fixReturn' = <<>>
         /\ exported' = <<>>
         /\ timers' = Append(timers, [csvData |-> csvData, rulesData |-> rulesData,
                                       stale |-> FALSE])
         /\ lastOp' = [NoOp EXCEPT !.op = "handleValidate"]
         /\ UNCHANGED <<csvData, rulesData, wasmModule, reads, isProcessing, pre, nfix>>

\* The timer callback: new CsvProcessor(csvData, rulesData) throws when
\* JSON.parse does, and the catch stores the message; otherwise the
\* processor is set, the dashboard mounts (or sees a new processor) and its
\* effect stores a fresh summary.
ValidateTimer ==
    /\ timers # <<>>
    /\ timers' = Tail(timers)
    /\ LET c == Head(timers)
       IN  IF ~c.rulesData.valid
           THEN /\ error' = <<str_SyntaxError>>
                /\ lastOp' = [NoOp EXCEPT !.op = "throw"]
                /\ UNCHANGED <<processor, summary, pre>>
           ELSE LET proc == CsvProcessorJS(c.csvData, c.rulesData.value)
                IN  /\ processor' = proc
                    /\ summary' = get_error_summary(proc)
                    /\ lastOp' = NoOp
                    /\ pre' = [headers |-> proc.headers, records |-> proc.records,
                               summary |-> get_error_summary(proc), op |-> NoOp]
                    /\ UNCHANGED error
    /\ UNCHANGED <<csvData, rulesData, wasmModule, reads, isProcessing,
                   fixReturn, exported, nfix>>

LoadNext ==
    \/ LoadWasm
    \/ HandleValidate
    \/ ValidateTimer
    \/ \E type \in {"valid", "invalid"} : HandleExport(type)

LoadSpec == LoadInit /\ [][LoadNext]_vars

(***************************************************************************)
(* The App while the operator edits: rule-builder edits, file uploads and  *)
(* clearFile, interleaved with handleValidate and its timers.              *)
(***************************************************************************)
MaxReads == 1
MaxRules == 2

\* Files the operator can pick.  isLargeFile is text.length > 1_000_000 of
\* the text last read (and false after clearFile), so it is a function of
\* csvData; csv_large stands for a text of more than a million characters.
csv_large == <<"a", ",", "b", "\n", "9", ",", "X">>
AppFiles == {csv_large}
isLargeFile == csvData = csv_large

str_option1 == <<"o", "p", "t", "i", "o", "n", "1">>

\* The rule object addRuleToColumn creates for a type.
NewRule(ruleType) ==
    CASE ruleType = "number" -> number(<<0>>, <<100>>)
      [] ruleType = "regex" -> regex(DefaultPattern)
      [] ruleType = "oneof" -> oneof(<<str_option1>>)
      [] OTHER -> Rule(ruleType, undefined, undefined, undefined)

\* The types offered in the model.
BuilderTypes == {"number"}

\* Array.prototype.splice(idx, 1).
RemoveAt(arr, idx) == SubSeq(arr, 1, idx - 1) \o SubSeq(arr, idx + 1, Len(arr))

AppInit ==
    /\ csvData = csv_spaces
    /\ rulesData = Json(<<ColumnRules(str_a, <<notempty>>)>>)
    /\ wasmModule = FALSE
    /\ error = <<>>
    /\ timers = <<>>
    /\ reads = <<>>
    /\ isProcessing = FALSE
    /\ processor = NullProcessor
    /\ summary = NoSummary
    /\ fixReturn = <<>>
    /\ exported = <<>>
    /\ lastOp = [NoOp EXCEPT !.op = "mount"]
    /\ pre = [headers |-> <<>>, records |-> <<>>, summary |-> NoSummary, op |-> NoOp]
    /\ nfix = 0

\* Variant: the processor holds the rule objects of the builder instead of
\* a parse of its own, so the push is seen through its rule map.
AddRuleToColumn_aliased(colIdx, ruleType) ==
    /\ rulesData.valid
    /\ colIdx \in 1..Len(rulesData.value)
    /\ Len(rulesData.value[colIdx].rules) < MaxRules
    /\ LET newRules == [rulesData.value EXCEPT ![colIdx].rules = Append(@, NewRule(ruleType))]
       IN  /\ rulesData' = Json(newRules)
           /\ processor' = IF processor = NullProcessor THEN processor
                           ELSE [processor EXCEPT !.rules = newRules,
                                                  !.ruleMap = buildRuleMap(newRules, 1, EmptyObj)]
    /\ UNCHANGED <<csvData, wasmModule, error, timers, reads, isProcessing,
                   summary, fixReturn, exported, lastOp, pre, nfix>>

\* addRuleToColumn, and the effect that writes the builder's rules to
\* rulesData as JSON.
AddRuleToColumn(colIdx, ruleType) ==
    /\ rulesData.valid
    /\ colIdx \in 1..Len(rulesData.value)
    /\ Len(rulesData.value[colIdx].rules) < MaxRules
    /\ rulesData' = Json([rulesData.value EXCEPT ![colIdx].rules = Append(@, NewRule(ruleType))])
    /\ UNCHANGED <<csvData, wasmModule, error, timers, reads, isProcessing,
                   processor, summary, fixReturn, exported, lastOp, pre, nfix>>

\* removeRuleFromColumn, and the same effect.
RemoveRuleFromColumn(colIdx, ruleIdx) ==
    /\ rulesData.valid
    /\ colIdx \in 1..Len(rulesData.value)
    /\ ruleIdx \in 1..Len(rulesData.value[colIdx].rules)
    /\ rulesData' = Json([rulesData.value EXCEPT ![colIdx].rules = RemoveAt(@, ruleIdx)])
    /\ UNCHANGED <<csvData, wasmModule, error, timers, reads, isProcessing,
                   processor, summary, fixReturn, exported, lastOp, pre, nfix>>

\* Every timer that is pending now was set before this reset.
MarkStale(ts) == [i \in 1..Len(ts) |-> [ts[i] EXCEPT !.stale = TRUE]]

\* handleFileUpload: the processor and the error are cleared and the file
\* is handed to a FileReader.
HandleFileUpload(text) ==
    /\ Len(reads) < MaxReads
    /\ processor' = NullProcessor
    /\ summary' = NoSummary
    /\ fixReturn' = <<>>
    /\ exported' = <<>>
    /\ error' = <<>>
    /\ reads' = Append(reads, text)
    /\ timers' = MarkStale(timers)
    /\ lastOp' = [NoOp EXCEPT !.op = "handleFileUpload"]
    /\ UNCHANGED <<csvData, rulesData, wasmModule, isProcessing, pre, nfix>>

\* reader.onload of one of the pending reads.
FileLoaded(i) ==
    /\ i \in 1..Len(reads)
    /\ csvData' = reads[i]
    /\ reads' = RemoveAt(reads, i)
    /\ UNCHANGED <<rulesData, wasmModule, error, timers, isProcessing,
                   processor, summary, fixReturn, exported, lastOp, pre, nfix>>

\* clearFile: its button is rendered while isLargeFile holds.
ClearFile ==
    /\ isLargeFile
    /\ csvData' = EmptyStr
    /\ processor' = NullProcessor
    /\ summary' = NoSummary
    /\ fixReturn' = <<>>
    /\ exported' = <<>>
    /\ timers' = MarkStale(timers)
    /\ lastOp' = [NoOp EXCEPT !.op = "clearFile"]
    /\ UNCHANGED <<rulesData, wasmModule, error, reads, isProcessing, pre, nfix>>

AppNext ==
    \/ LoadWasm
    \/ HandleValidate
    \/ ValidateTimer
    \/ \E colIdx \in 1..1, ruleType \in BuilderTypes : AddRuleToColumn(colIdx, ruleType)
    \/ \E colIdx \in 1..1, ruleIdx \in 1..(MaxRules + 1) : RemoveRuleFromColumn(colIdx, ruleIdx)
    \/ \E text \in AppFiles : HandleFileUpload(text)
    \/ \E i \in 1..(MaxReads + 1) : FileLoaded(i)
    \/ ClearFile

AppSpec == AppInit /\ [][AppNext]_vars

(***************************************************************************)
(* DataAirlock: the airlock screen (upload, generation) and the dashboard  *)
(* (bulk fix, re-validation).  The state is that of the component:         *)
(*   csvData     the csvData state; EmptyStr also stands for null, whose   *)
(*               one use is the test `if (csvData)`                        *)
(*   rulesData   the rules state, as Json(rules): it is stringified when a *)
(*               processor is built                                        *)
(*   timers      pending timeouts: "gen" is handleDevGen's (50 ms),        *)
(*               "process" is processData's (100 ms); each holds what its  *)
(*               closure captured                                          *)
(*   reads       pending FileReader reads with what onload captured        *)
(*   view        is 'dashboard' exactly when a processor is installed:     *)
(*               setView is called once, next to setProcessor              *)
(* The engine is CsvProcessorJS, the class the catch of loadWasm falls     *)
(* back to.                                                                *)
(***************************************************************************)
MaxColumns == 5

DEFAULT_SCHEMA ==
    << ColumnRules(str_name, <<notempty>>),
       ColumnRules(str_age, <<notempty, number(<<18>>, <<100>>)>>),
       ColumnRules(str_email, <<email>>),
       ColumnRules(str_role, <<oneof(<<str_admin, str_user, str_guest>>)>>) >>

str_id == <<"i", "d">>
str_150 == <<"1", "5", "0">>
str_50 == <<"5", "0">>
str_Bob == <<"B", "o", "b">>

\* generateDummyCSV with one data row: the empty name and the age 150 are
\* two of the errors it plants.
csv_generated ==
    <<"i", "d", ",", "n", "a", "m", "e", ",", "a", "g", "e", ",",
      "e", "m", "a", "i", "l", ",", "r", "o", "l", "e", "\n",
      "1", ",", ",", "1", "5", "0", ",",
      "u", "s", "e", "r", "0", "@", "e", "x", "a", "m", "p", "l", "e", ".", "c", "o", "m", ",",
      "a", "d", "m", "i", "n">>

\* The file the operator drops: id,name / 1, / 2,Bob
csv_upload ==
    <<"i", "d", ",", "n", "a", "m", "e", "\n", "1", ",", "\n", "2", ",", "B", "o", "b">>

AirlockFiles == {csv_upload}

\* What Re-Run Validation hands over: the rules as they are, or with a
\* column added in the builder (addCol, renamed to id, one email rule).
AddedColumns == {<<>>, <<ColumnRules(str_id, <<email>>)>>}

\* The fixes the fixer panel is asked for.
AirlockFixArgs ==
    { <<str_name, EmptyStr, str_Bob>>,
      <<str_age, str_150, str_50>> }

view == IF processor = NullProcessor THEN "airlock" ELSE "dashboard"

AirlockInit ==
    /\ csvData = EmptyStr
    /\ rulesData = Json(DEFAULT_SCHEMA)
    /\ wasmModule = FALSE
    /\ error = <<>>
    /\ timers = <<>>
    /\ reads = <<>>
    /\ isProcessing = FALSE
    /\ processor = NullProcessor
    /\ summary = NoSummary
    /\ fixReturn = <<>>
    /\ exported = <<>>
    /\ lastOp = [NoOp EXCEPT !.op = "mount"]
    /\ pre = [headers |-> <<>>, records |-> <<>>, summary |-> NoSummary, op |-> NoOp]
    /\ nfix = 0

\* processData as the closure of one render runs it: module is the
\* wasmModule that render saw, ts the timers left pending by the caller.
processData(module, text, currentRules, ts) ==
    IF ~module
    THEN /\ timers' = ts
         /\ UNCHANGED isProcessing
    ELSE /\ isProcessing' = TRUE
         /\ timers' = Append(ts, [kind |-> "process", text |-> text,
                                  rules |-> currentRules, module |-> module])

\* handleFileUpload of the airlock screen: the drop zone opens the file
\* dialog while nothing is processing; onload keeps the rules and the
\* processData of the render the file was picked in.
AirlockFileUpload(text) ==
    /\ view = "airlock"
    /\ ~isProcessing
    /\ Len(reads) < MaxReads
    /\ reads' = Append(reads, [text |-> text, rules |-> rulesData.value, module |-> wasmModule])
    /\ UNCHANGED <<csvData, rulesData, wasmModule, error, timers, isProcessing,
                   processor, summary, fixReturn, exported, lastOp, pre, nfix>>

\* reader.onload: setCsvData(text); processData(text, rules).
AirlockFileLoaded(i) ==
    /\ i \in 1..Len(reads)
    /\ reads[i].module => Len(timers) < MaxTimers
    /\ csvData' = reads[i].text
    /\ reads' = RemoveAt(reads, i)
    /\ processData(reads[i].module, reads[i].text, reads[i].rules, timers)
    /\ UNCHANGED <<rulesData, wasmModule, error, processor, summary,
                   fixReturn, exported, lastOp, pre, nfix>>

\* handleDevGen: its button is rendered on the airlock screen while nothing
\* is processing.
HandleDevGen ==
    /\ view = "airlock"
    /\ ~isProcessing
    /\ Len(timers) < MaxTimers
    /\ isProcessing' = TRUE
    /\ timers' = Append(timers, [kind |-> "gen", text |-> EmptyStr,
                                 rules |-> rulesData.value, module |-> wasmModule])
    /\ UNCHANGED <<csvData, rulesData, wasmModule, error, reads,
                   processor, summary, fixReturn, exported, lastOp, pre, nfix>>

\* A timeout set after another with a shorter delay can fire before it; one
\* set earlier with a shorter delay cannot fire after it.  So the oldest
\* "gen" timer may fire at any time, a "process" timer only as the oldest
\* of all.
FirstGen(i) ==
    /\ i \in 1..Len(timers)
    /\ timers[i].kind = "gen"
    /\ \A j \in 1..(i - 1) : timers[j].kind # "gen"

\* The callback of handleDevGen: the text is generated, stored and handed
\* to the processData the callback captured.
DevGenTimer ==
    \E i \in 1..Len(timers) :
        /\ FirstGen(i)
        /\ csvData' = csv_generated
        /\ processData(timers[i].module, csv_generated, timers[i].rules, RemoveAt(timers, i))
        /\ UNCHANGED <<rulesData, wasmModule, error, reads, processor, summary,
                       fixReturn, exported, lastOp, pre, nfix>>

\* The callback of processData: the constructor of CsvProcessorJS does not
\* throw for rules the builder can produce, so the try block runs through
\* and finally clears the flag.
ProcessTimer ==
    /\ timers # <<>>
    /\ Head(timers).kind = "process"
    /\ LET proc == CsvProcessorJS(Head(timers).text, Head(timers).rules)
       IN  /\ processor' = proc
           /\ summary' = get_error_summary(proc)
    /\ isProcessing' = FALSE
    /\ timers' = Tail(timers)
    /\ fixReturn' = <<>>
    /\ lastOp' = NoOp
    /\ UNCHANGED <<csvData, rulesData, wasmModule, error, reads, exported, pre, nfix>>

\* handleRevalidate, reached from the rule builder of the dashboard.
HandleRevalidate(newRules) ==
    /\ view = "dashboard"
    /\ Len(newRules) <= MaxColumns
    /\ Len(timers) < MaxTimers
    /\ rulesData' = Json(newRules)
    /\ IF csvData # EmptyStr
       THEN processData(wasmModule, csvData, newRules, timers)
       ELSE UNCHANGED <<timers, isProcessing>>
    /\ UNCHANGED <<csvData, wasmModule, error, reads, processor, summary,
                   fixReturn, exported, lastOp, pre, nfix>>

AirlockNext ==
    \/ LoadWasm
    \/ \E text \in AirlockFiles : AirlockFileUpload(text)
    \/ \E i \in 1..(MaxReads + 1) : AirlockFileLoaded(i)
    \/ HandleDevGen
    \/ DevGenTimer
    \/ ProcessTimer
    \/ \E added \in AddedColumns : HandleRevalidate(rulesData.value \o added)
    \/ \E args \in AirlockFixArgs : HandleBulkFix(args[1], args[2], args[3])

AirlockSpec == AirlockInit /\ [][AirlockNext]_vars

\* ProcessTimer is enabled exactly when the oldest timer is a "process"
\* timer, and firing it always changes timers.
ProcessDue == timers # <<>> /\ Head(timers).kind = "process"

\* Timers fire and file reads complete once they are pending, and the
\* import of the engine settles.  The third conjunct is WF_vars(ProcessTimer)
\* with ENABLED <<ProcessTimer>>_vars written as ProcessDue.
AirlockLive ==
    /\ AirlockInit
    /\ [][AirlockNext]_vars
    /\ WF_vars(LoadWasm)
    /\ WF_vars(DevGenTimer)
    /\ ([]<>(~ProcessDue) \/ []<><<ProcessTimer>>_vars)
    /\ WF_vars(\E i \in 1..(MaxReads + 1) : AirlockFileLoaded(i))

(***************************************************************************)
(* Helpers of the properties.                                              *)
(***************************************************************************)
RECURSIVE SumOver(_, _)
SumOver(f, S) ==
    IF S = {} THEN 0
    ELSE LET x == CHOOSE y \in S : TRUE IN f[x] + SumOver(f, S \ {x})

\* The count of one (column, kind) pair, 0 when the summary has no entry.
Count(sm, col, kind) ==
    IF col \in DOMAIN sm.stats /\ kind \in DOMAIN sm.stats[col]
    THEN sm.stats[col][kind] ELSE 0

ColumnTotal(sm, col) ==
    IF col \in DOMAIN sm.stats
    THEN SumOver(sm.stats[col], DOMAIN sm.stats[col]) ELSE 0

StatsTotal(sm) ==
    SumOver([col \in DOMAIN sm.stats |-> ColumnTotal(sm, col)], DOMAIN sm.stats)

\* The cells of record i that lie under a header.
CellsOf(p, i) ==
    {j \in 1..Len(p.records[i]) : j <= Len(p.headers)}

\* The cells of record i in a column named col whose chain gives kind.
TriggeringCells(p, i, col, kind) ==
    {j \in CellsOf(p, i) :
        /\ p.headers[j] = col
        /\ col \in DOMAIN p.ruleMap
        /\ \E r \in 1..Len(p.ruleMap[col]) :
              RuleError(p.ruleMap[col][r], p.records[i][j]) = kind}

\* The raw values that trigger kind in a column named col in the first
\* (lowest-index) record that does so; more than one only when two header
\* columns share the name.
FirstTriggeringValues(p, col, kind) ==
    LET recs == {i \in 1..Len(p.records) : TriggeringCells(p, i, col, kind) # {}}
        i0 == First(recs)
    IN  {p.records[i0][j] : j \in TriggeringCells(p, i0, col, kind)}

\* Record i triggers at least one error kind under the rules of p.
RecordHasError(p, i) ==
    get_error_summary([p EXCEPT !.records = <<p.records[i]>>]).total_errors > 0

\* The data rows of an exported text: its lines without the header line.
DataRows(text) == Tail(split(text, Newline))

IsPrefix(s, t) == Len(s) <= Len(t) /\ SubSeq(t, 1, Len(s)) = s

\* The serialized line of record i, as a row of the valid output and as the
\* start of a row of the invalid output (the reason column follows).
RecordLine(p, i) == join(p.records[i], Comma)

InValidOutput(p, i, out) ==
    \E k \in 1..Len(DataRows(out.valid)) : DataRows(out.valid)[k] = RecordLine(p, i)

InInvalidOutput(p, i, out) ==
    \E k \in 1..Len(DataRows(out.invalid)) :
        IsPrefix(RecordLine(p, i) \o <<Comma>>, DataRows(out.invalid)[k])

\* The last handler that ran was a fix, so pre is the state that fix began in.
LastWasFix == lastOp.op = "apply_bulk_fix"

\* The export result on screen belongs to the current table.
ExportIsCurrent == lastOp.op = "generate_split_export" /\ exported # <<>>

(***************************************************************************)
(* C1  First-wins examples: for every (column, kind) pair with a count of  *)
(* at least 1, examples[column][kind] is the raw value of the first record *)
(* that triggers that kind in that column, also when that value is the     *)
(* empty string.                                                           *)
(***************************************************************************)
C1_FirstWinsExamples ==
    \A col \in DOMAIN summary.stats :
        \A kind \in DOMAIN summary.stats[col] :
            summary.examples[col][kind] \in FirstTriggeringValues(processor, col, kind)

(***************************************************************************)
(* C2  total_errors equals the sum of stats[column][kind] over all columns *)
(* and kinds, also when two header columns share a name.                   *)
(***************************************************************************)
C2_TotalIsSumOfStats == summary.total_errors = StatsTotal(summary)

C2_Witness ==
    /\ Len(processor.headers) = 2
    /\ processor.headers[1] = processor.headers[2]
    /\ \E kind \in {"Required", "Not a Number", "Invalid Email", "Invalid Option"} :
          Count(summary, processor.headers[1], kind) >= 2
    /\ Cardinality(DOMAIN summary.stats[processor.headers[1]]) >= 2

(***************************************************************************)
(* C3  Export membership: a record is in the invalid output iff it         *)
(* triggers at least one error kind, and in the valid output iff it        *)
(* triggers none.                                                          *)
(***************************************************************************)
C3_ExportMembership ==
    ExportIsCurrent =>
        \A i \in 1..Len(processor.records) :
            /\ InInvalidOutput(processor, i, exported[1]) <=> RecordHasError(processor, i)
            /\ InValidOutput(processor, i, exported[1]) <=> ~RecordHasError(processor, i)

(***************************************************************************)
(* C4  Export partition completeness: the data rows of the valid output    *)
(* plus those of the invalid output are as many as the records; every      *)
(* record is in exactly one of the two outputs; each output keeps the      *)
(* records in their original order.                                        *)
(***************************************************************************)
\* The records with index in S, in order, as serialized lines.
RECURSIVE LinesOf(_, _, _)
LinesOf(p, S, i) ==
    IF i > Len(p.records) THEN <<>>
    ELSE (IF i \in S THEN <<RecordLine(p, i)>> ELSE <<>>) \o LinesOf(p, S, i + 1)

C4_ExportPartition ==
    ExportIsCurrent =>
        LET n == Len(processor.records)
            validRows == DataRows(exported[1].valid)
            invalidRows == DataRows(exported[1].invalid)
        IN  /\ Len(validRows) + Len(invalidRows) = n
            /\ \E S \in SUBSET (1..n) :
                  /\ validRows = LinesOf(processor, S, 1)
                  /\ LET rest == LinesOf(processor, (1..n) \ S, 1)
                     IN  /\ Len(invalidRows) = Len(rest)
                         /\ \A k \in 1..Len(rest) :
                               IsPrefix(rest[k] \o <<Comma>>, invalidRows[k])

C4_Witness ==
    /\ ExportIsCurrent
    /\ Len(processor.records) = 2
    /\ processor.records[1] # processor.records[2]
    /\ RecordHasError(processor, 1)
    /\ ~RecordHasError(processor, 2)
    /\ nfix > 0

C6_FixFrame ==
    (LastWasFix /\ indexOf(pre.headers, lastOp.col) # 0) =>
        LET c == indexOf(pre.headers, lastOp.col)
        IN  /\ processor.headers = pre.headers
            /\ Len(processor.records) = Len(pre.records)
            /\ \A i \in 1..Len(pre.records) :
                  /\ Len(processor.records[i]) = Len(pre.records[i])
                  /\ \A j \in 1..Len(pre.records[i]) :
                        processor.records[i][j] =
                            IF j = c /\ pre.records[i][j] = lastOp.find
                            THEN lastOp.replace
                            ELSE pre.records[i][j]

\* A fix of column b from x to x@ that rewrote one cell and left alone, in
\* the same column, a cell X that differs from find only by case.
C6_Witness ==
    /\ LastWasFix
    /\ lastOp.col = str_b /\ lastOp.find = str_x /\ lastOp.replace = str_xAt
    /\ processor.headers = <<str_a, str_b>>
    /\ \E i, k \in 1..Len(processor.records) :
          /\ Len(processor.records[i]) >= 2 /\ Len(processor.records[k]) >= 2
          /\ pre.records[i][2] = str_x /\ processor.records[i][2] = str_xAt
          /\ pre.records[k][2] = str_X /\ processor.records[k][2] = str_X

(***************************************************************************)
(* C7  Idempotent fix: a second apply_bulk_fix with the same arguments     *)
(* changes no cell of the table, and the stats of the column and the whole *)
(* summary after the second call equal those after the first.              *)
(***************************************************************************)
SameFixAgain ==
    /\ LastWasFix
    /\ pre.op.op = "apply_bulk_fix"
    /\ lastOp.col = pre.op.col
    /\ lastOp.find = pre.op.find
    /\ lastOp.replace = pre.op.replace

C7_IdempotentFix ==
    SameFixAgain =>
        /\ processor.records = pre.records
        /\ processor.headers = pre.headers
        /\ summary = pre.summary

\* The same fix of column b from x to x@ twice over a table with two cells
\* x in that column; x@ is in no input, so the first call rewrote both.
C7_Witness ==
    /\ SameFixAgain
    /\ lastOp.col = str_b /\ lastOp.find = str_x /\ lastOp.replace = str_xAt
    /\ Len(processor.records) >= 2
    /\ \A i \in 1..2 :
          Len(processor.records[i]) >= 2 /\ processor.records[i][2] = str_xAt

(***************************************************************************)
(* C8  A fix that matches nothing is a no-op: when the column is not in    *)
(* the headers, or no cell of the column equals find, the call returns     *)
(* normally, the table is unchanged and the summary after the call equals  *)
(* the summary before it.                                                  *)
(***************************************************************************)
NothingMatched ==
    /\ LastWasFix
    /\ LET c == indexOf(pre.headers, lastOp.col)
       IN  \/ c = 0
           \/ \A i \in 1..Len(pre.records) :
                 c > Len(pre.records[i]) \/ pre.records[i][c] # lastOp.find

C8_NoMatchNoOp ==
    NothingMatched =>
        /\ processor.headers = pre.headers
        /\ processor.records = pre.records
        /\ summary = pre.summary
        /\ fixReturn = <<pre.summary.total_errors>>

\* A fix on the missing column zz while a cell of the first column holds
\* the find value.
C8_Witness ==
    /\ NothingMatched
    /\ lastOp.col = str_zz
    /\ indexOf(pre.headers, str_zz) = 0
    /\ \E i \in 1..Len(pre.records) : pre.records[i][1] = lastOp.find
    /\ pre.summary.total_errors > 0

(***************************************************************************)
(* C9  Every rule of a column's chain is evaluated on every cell of the    *)
(* column independently of the other rules: a cell that violates k rules   *)
(* of its chain adds k to the aggregate; an empty cell under notempty plus *)
(* number counts both Required and Not a Number.                           *)
(***************************************************************************)
\* What it means for a value to violate a rule, rule type by rule type.
Violates(rule, val) ==
    CASE rule.type = "notempty" -> val = EmptyStr
      [] rule.type = "number" ->
            \/ parseFloat(val) = NaN
            \/ rule.min # undefined /\ lt(parseFloat(val), rule.min)
            \/ rule.max # undefined /\ gt(parseFloat(val), rule.max)
      [] rule.type = "email" -> ~testAt(val)
      [] rule.type = "oneof" -> ~includes(rule.options, val)
      [] OTHER -> FALSE

\* The number of rules of its chain that cell j of record i violates.
ViolationsOfCell(p, i, j) ==
    LET col == p.headers[j]
    IN  IF col \notin DOMAIN p.ruleMap THEN 0
        ELSE Cardinality({r \in 1..Len(p.ruleMap[col]) :
                              Violates(p.ruleMap[col][r], p.records[i][j])})

\* The violations of all cells under a header named col.
ViolationsOfColumn(p, col) ==
    LET cells == {ij \in (1..Len(p.records)) \X (1..Len(p.headers)) :
                     ij[2] \in CellsOf(p, ij[1]) /\ p.headers[ij[2]] = col}
    IN  SumOver([ij \in cells |-> ViolationsOfCell(p, ij[1], ij[2])], cells)

HeaderNames(p) == {p.headers[j] : j \in 1..Len(p.headers)}

EmptyCells(p, col) ==
    {ij \in (1..Len(p.records)) \X (1..Len(p.headers)) :
        /\ ij[2] \in CellsOf(p, ij[1])
        /\ p.headers[ij[2]] = col
        /\ p.records[ij[1]][ij[2]] = EmptyStr}

HasRule(p, col, type) ==
    col \in DOMAIN p.ruleMap /\ \E r \in 1..Len(p.ruleMap[col]) : p.ruleMap[col][r].type = type

C9_EveryRuleCounts ==
    \A col \in HeaderNames(processor) :
        /\ ColumnTotal(summary, col) = ViolationsOfColumn(processor, col)
        /\ (HasRule(processor, col, "notempty") /\ HasRule(processor, col, "number")) =>
              /\ Count(summary, col, "Required") >= Cardinality(EmptyCells(processor, col))
              /\ Count(summary, col, "Not a Number") >= Cardinality(EmptyCells(processor, col))

\* An empty cell under the chain notempty + number, counted twice.
C9_Witness ==
    /\ HasRule(processor, str_a, "notempty") /\ HasRule(processor, str_a, "number")
    /\ processor.headers = <<str_a, str_b>>
    /\ Cardinality(EmptyCells(processor, str_a)) = 1
    /\ Count(summary, str_a, "Required") = 1
    /\ Count(summary, str_a, "Not a Number") >= 1
    /\ ColumnTotal(summary, str_a) >= 2

(***************************************************************************)
(* C10  Aggregation example: headers name,age,email,role, records          *)
(* (,abc,,x) and (Bob,24,bob@example.com,user), rules name: notempty;      *)
(* age: notempty + number(18,100); email: email; role: oneof(admin,user,   *)
(* guest).  As claimed: name.Required = 1, age.Required = 1,               *)
(* age.NotANumber = 1, one error for the empty email cell,                 *)
(* role.InvalidOption = 1, total_errors the sum of these counts.           *)
(***************************************************************************)
ExampleLoaded == csvData = EXAMPLE_CSV /\ processor.rules = SAMPLE_RULES /\ nfix = 0

C10_ExampleAsClaimed ==
    ExampleLoaded =>
        /\ Count(summary, str_name, "Required") = 1
        /\ Count(summary, str_age, "Required") = 1
        /\ Count(summary, str_age, "Not a Number") = 1
        /\ ColumnTotal(summary, str_email) = 1
        /\ Count(summary, str_role, "Invalid Option") = 1
        /\ summary.total_errors = 1 + 1 + 1 + 1 + 1

\* C10 as amended: the age cell abc is not empty, so age has no Required
\* count; the other counts are as claimed and total_errors is their sum, 4.
C10_ExampleAmended ==
    ExampleLoaded =>
        /\ Count(summary, str_name, "Required") = 1
        /\ Count(summary, str_age, "Required") = 0
        /\ Count(summary, str_age, "Not a Number") = 1
        /\ ColumnTotal(summary, str_name) = 1
        /\ ColumnTotal(summary, str_age) = 1
        /\ ColumnTotal(summary, str_email) = 1
        /\ Count(summary, str_email, "Invalid Email") = 1
        /\ Count(summary, str_role, "Invalid Option") = 1
        /\ ColumnTotal(summary, str_role) = 1
        /\ summary.total_errors = 1 + 0 + 1 + 1 + 1
        /\ summary.total_errors = StatsTotal(summary)

C10_Witness ==
    /\ ExampleLoaded
    /\ processor.headers = <<str_name, str_age, str_email, str_role>>
    /\ Len(processor.records) = 2
    /\ processor.records[1][2] = <<"a", "b", "c">>
    /\ summary.total_errors = 4

(***************************************************************************)
(* Helpers of the rule claims (C11 to C17): the cells of a column, and the *)
(* columns whose chain holds exactly one rule of a type, so that a count   *)
(* of the summary is the count of that one rule.                           *)
(***************************************************************************)
Loaded == processor # NullProcessor

ColumnCells(p, col) ==
    {ij \in (1..Len(p.records)) \X (1..Len(p.headers)) :
        ij[2] \in CellsOf(p, ij[1]) /\ p.headers[ij[2]] = col}

Field(p, ij) == p.records[ij[1]][ij[2]]

RulesOfType(p, col, type) ==
    IF col \in DOMAIN p.ruleMap
    THEN {r \in 1..Len(p.ruleMap[col]) : p.ruleMap[col][r].type = type}
    ELSE {}

OneRule(p, col, type) == Cardinality(RulesOfType(p, col, type)) = 1

TheRule(p, col, type) == p.ruleMap[col][CHOOSE r \in RulesOfType(p, col, type) : TRUE]

(***************************************************************************)
(* C11  NotEmpty reports Required exactly when the field is empty after    *)
(* surrounding white space is trimmed: in a column with a notempty rule    *)
(* the Required count is the number of cells that are empty or hold only   *)
(* white space.                                                            *)
(***************************************************************************)
BlankCells(p, col) == {ij \in ColumnCells(p, col) : trim(Field(p, ij)) = EmptyStr}

C11_RequiredAfterTrim ==
    Loaded =>
        \A col \in HeaderNames(processor) :
            OneRule(processor, col, "notempty") =>
                Count(summary, col, "Required") = Cardinality(BlankCells(processor, col))

(***************************************************************************)
(* C12  NumberRange: Not a Number exactly for the cells whose whole field  *)
(* is not a finite number (12abc and Infinity are not); otherwise Min      *)
(* Value exactly when min is present and the value is below it, Max Value  *)
(* exactly when max is present and the value is above it; nothing at a     *)
(* bound; min and max are optional independently.                          *)
(***************************************************************************)
\* The whole field is a finite number: over the alphabet of the model, a
\* non-empty string of decimal digits.
IsFiniteNumber(val) == val # EmptyStr /\ \A i \in 1..Len(val) : val[i] \in Digits

NumberOf(val) == digitPrefix(val, FALSE, 0)[1]

C12_NumberRange ==
    Loaded =>
        \A col \in HeaderNames(processor) :
            OneRule(processor, col, "number") =>
                LET rule == TheRule(processor, col, "number")
                    cells == ColumnCells(processor, col)
                    numeric == {ij \in cells : IsFiniteNumber(Field(processor, ij))}
                IN  /\ Count(summary, col, "Not a Number") = Cardinality(cells \ numeric)
                    /\ Count(summary, col, "Min Value") =
                          Cardinality({ij \in numeric :
                              rule.min # undefined /\ NumberOf(Field(processor, ij)) < rule.min[1]})
                    /\ Count(summary, col, "Max Value") =
                          Cardinality({ij \in numeric :
                              rule.max # undefined /\ NumberOf(Field(processor, ij)) > rule.max[1]})

(***************************************************************************)
(* C13  Email reports Invalid Email unless the field holds exactly one @   *)
(* with a non-empty part before it and a non-empty part after it: @, a@,   *)
(* @b and a@b@c are all invalid.                                           *)
(***************************************************************************)
ValidEmail(val) ==
    /\ Cardinality({i \in 1..Len(val) : val[i] = "@"}) = 1
    /\ val[1] # "@"
    /\ val[Len(val)] # "@"

C13_EmailShape ==
    Loaded =>
        \A col \in HeaderNames(processor) :
            OneRule(processor, col, "email") =>
                Count(summary, col, "Invalid Email") =
                    Cardinality({ij \in ColumnCells(processor, col) :
                                    ~ValidEmail(Field(processor, ij))})

(***************************************************************************)
(* C14  OneOf reports Invalid Option exactly when the field is not equal,  *)
(* character for character (case matters, nothing is trimmed), to a member *)
(* of options.                                                             *)
(***************************************************************************)
OptionsOf(rule) == {rule.options[k] : k \in 1..Len(rule.options)}

C14_OneOfExact ==
    Loaded =>
        \A col \in HeaderNames(processor) :
            OneRule(processor, col, "oneof") =>
                Count(summary, col, "Invalid Option") =
                    Cardinality({ij \in ColumnCells(processor, col) :
                        Field(processor, ij) \notin OptionsOf(TheRule(processor, col, "oneof"))})

\* Column b with options (x) and the cells x, X and " x": the last two are
\* counted, the first is not.
C14_Witness ==
    /\ Loaded
    /\ processor.headers = <<str_a, str_b>>
    /\ OneRule(processor, str_b, "oneof")
    /\ OptionsOf(TheRule(processor, str_b, "oneof")) = {str_x}
    /\ {Field(processor, ij) : ij \in ColumnCells(processor, str_b)} = {str_x, str_X, <<" ", "x">>}
    /\ Count(summary, str_b, "Invalid Option") = 2

(***************************************************************************)
(* C15  Regex: in a column with a regex rule every cell whose whole field  *)
(* does not match the pattern is counted in the summary (under the pattern *)
(* mismatch kind).  Stated for the pattern the rule builder creates,       *)
(* ^[a-z]+$, and whatever name the kind carries: the column's errors are   *)
(* at least its mismatching cells.                                         *)
(***************************************************************************)
LowerCase ==
    {"a", "b", "c", "d", "e", "f", "g", "h", "i", "j", "k", "l", "m",
     "n", "o", "p", "q", "r", "s", "t", "u", "v", "w", "x", "y", "z"}

\* The whole field matches ^[a-z]+$.
MatchesDefaultPattern(val) == val # EmptyStr /\ \A i \in 1..Len(val) : val[i] \in LowerCase

C15_PatternMismatchCounted ==
    Loaded =>
        \A col \in HeaderNames(processor) :
            (OneRule(processor, col, "regex")
                /\ TheRule(processor, col, "regex").pattern = DefaultPattern) =>
                ColumnTotal(summary, col) >=
                    Cardinality({ij \in ColumnCells(processor, col) :
                                    ~MatchesDefaultPattern(Field(processor, ij))})

(***************************************************************************)
(* C16  A rule set with a regex rule whose pattern does not compile fails  *)
(* to load: no processor is constructed or shown for it, and once the      *)
(* load has run the failure is reported.                                   *)
(***************************************************************************)
\* Over the patterns of the model: a pattern compiles unless a group is
\* left open.
Compiles(pattern) ==
    Cardinality({i \in 1..Len(pattern) : pattern[i] = "("}) =
    Cardinality({i \in 1..Len(pattern) : pattern[i] = ")"})

HasBadPattern(rd) ==
    /\ rd.valid
    /\ \E e \in 1..Len(rd.value) : \E r \in 1..Len(rd.value[e].rules) :
          /\ rd.value[e].rules[r].type = "regex"
          /\ ~Compiles(rd.value[e].rules[r].pattern)

\* The validation timer has fired and nothing was requested since.
LoadHasRun == lastOp.op \in {"construct", "throw", "generate_split_export"}

C16_BadPatternFailsLoad ==
    HasBadPattern(rulesData) =>
        /\ ~Loaded
        /\ LoadHasRun => error # <<>>

(***************************************************************************)
(* C17  Only ruled cells count: a cell contributes to the summary only if  *)
(* its column is a header and has an entry in the rule set, and only       *)
(* through rules of a known type.  An entry for a column that is no header *)
(* and a rule of an unknown type are skipped: the load does not fail and   *)
(* the summary is the one of the rule set without them.                    *)
(***************************************************************************)
KnownTypes == {"notempty", "number", "email", "oneof", "regex"}

IsKnown(rule) == rule.type \in KnownTypes

\* The processor without the entries and rules the claim says are skipped.
WithoutSkipped(p) ==
    [p EXCEPT !.ruleMap = [col \in (DOMAIN p.ruleMap) \cap HeaderNames(p) |->
                              SelectSeq(p.ruleMap[col], IsKnown)]]

\* The rule set names a column that is no header, or a rule of unknown type.
HasSkipped(p) ==
    \/ (DOMAIN p.ruleMap) \ HeaderNames(p) # {}
    \/ \E col \in DOMAIN p.ruleMap : \E r \in 1..Len(p.ruleMap[col]) :
          ~IsKnown(p.ruleMap[col][r])

C17_OnlyRuledCellsCount ==
    /\ (rulesData.valid /\ LoadHasRun) => (Loaded /\ error = <<>>)
    /\ Loaded =>
          /\ DOMAIN summary.stats \subseteq (HeaderNames(processor) \cap DOMAIN processor.ruleMap)
          /\ summary = get_error_summary(WithoutSkipped(processor))

(***************************************************************************)
(* C18  Loading empty raw text fails with a parse error: the constructor   *)
(* raises, the App reports the error once the load has run, and no         *)
(* processor becomes visible to the dashboard.                             *)
(***************************************************************************)
C18_EmptyTextFailsLoad ==
    csvData = EmptyStr =>
        /\ ~Loaded
        /\ LoadHasRun => error # <<>>

(***************************************************************************)
(* C19  Parsing respects quoting: a field wrapped in quote characters that *)
(* contains the field delimiter or the record delimiter is one field of    *)
(* one record, and a doubled quote inside a quoted field is one quote      *)
(* character.  Stated against a reference reading of the text: delimiters  *)
(* count only outside quotes, and a quoted field stands for its content.   *)
(***************************************************************************)
Quote == "\""

\* Position i of s lies inside a quoted field: an odd number of quote
\* characters precedes it (a doubled quote switches twice).
InQuotes(s, i) == Cardinality({k \in 1..(i - 1) : s[k] = Quote}) % 2 = 1

\* The pieces of s between the given positions.
SplitAt(s, seps) ==
    LET starts == seps \cup {0}
        ends == seps \cup {Len(s) + 1}
        kth(S, k) == CHOOSE p \in S : Cardinality({q \in S : q < p}) = k - 1
    IN  [k \in 1..(Cardinality(seps) + 1) |->
            SubSeq(s, kth(starts, k) + 1, kth(ends, k) - 1)]

QuotedSplit(s, sep) == SplitAt(s, {i \in 1..Len(s) : s[i] = sep /\ ~InQuotes(s, i)})

\* The content of a field: without the wrapping quotes, and with the second
\* quote of every doubled quote dropped.
Unquote(f) ==
    IF Len(f) >= 2 /\ f[1] = Quote /\ f[Len(f)] = Quote
    THEN LET inner == SubSeq(f, 2, Len(f) - 1)
             keep == {i \in 1..Len(inner) :
                         ~(inner[i] = Quote /\ InQuotes(inner, i))}
             kth(k) == CHOOSE p \in keep : Cardinality({q \in keep : q < p}) = k - 1
         IN  [k \in 1..Cardinality(keep) |-> inner[kth(k)]]
    ELSE f

ReferenceRows(text) ==
    LET lines == QuotedSplit(text, Newline)
    IN  [r \in 1..Len(lines) |->
            LET fields == QuotedSplit(lines[r], Comma)
            IN  [c \in 1..Len(fields) |-> Unquote(fields[c])]]

AllRows(p) == <<p.headers>> \o p.records

C19_QuotingRespected ==
    Loaded => AllRows(processor) = ReferenceRows(trim(csvData))

(***************************************************************************)
(* C20  Round trip: for every table produced by parsing, the text the      *)
(* export emits for it (its valid output, which holds every record),       *)
(* parsed again, is the same table field for field; tables whose last      *)
(* field is empty and tables with a record of one empty field included.    *)
(***************************************************************************)
Reparsed == CsvProcessorJS(exported[1].valid, processor.rules)

C20_RoundTrip ==
    (Loaded /\ ExportIsCurrent) => AllRows(Reparsed) = AllRows(processor)

\* The table of the text a,b / x, / , : its last record is two empty
\* fields, and the exported text parses to the same three rows.
C20_Witness ==
    /\ Loaded
    /\ ExportIsCurrent
    /\ AllRows(processor) = <<<<str_a, str_b>>, <<str_x, EmptyStr>>, <<EmptyStr, EmptyStr>>>>
    /\ exported[1].valid = csv_lastEmpty
    /\ AllRows(Reparsed) = AllRows(processor)

(***************************************************************************)
(* C21  Record delimiters: a text whose records end with carriage return   *)
(* and line feed parses to the same headers and records, and so to the     *)
(* same summary, as the text with line feeds alone; no field keeps a       *)
(* carriage return.                                                        *)
(***************************************************************************)
\* The text with every carriage return that precedes a line feed removed.
LfOnly(text) ==
    LET keep == {i \in 1..Len(text) :
                    ~(text[i] = "\r" /\ i < Len(text) /\ text[i + 1] = Newline)}
        kth(k) == CHOOSE p \in keep : Cardinality({q \in keep : q < p}) = k - 1
    IN  [k \in 1..Cardinality(keep) |-> text[kth(k)]]

HasCarriageReturn(row) == \E j \in 1..Len(row) : \E i \in 1..Len(row[j]) : row[j][i] = "\r"

C21_CrLfAsLf ==
    Loaded =>
        LET lf == CsvProcessorJS(LfOnly(csvData), processor.rules)
        IN  /\ AllRows(processor) = AllRows(lf)
            /\ summary = get_error_summary(lf)
            /\ \A r \in 1..Len(AllRows(processor)) : ~HasCarriageReturn(AllRows(processor)[r])

(***************************************************************************)
(* C22  Ragged records: a record shorter than the header is validated as   *)
(* if its missing trailing fields were empty strings (a notempty rule on a *)
(* missing column reports Required), and the fields beyond the header are  *)
(* ignored and contribute no error: the counts are those of the table with *)
(* every record cut or padded to the length of the header.                 *)
(***************************************************************************)
Squared(p) ==
    [p EXCEPT !.records =
        [i \in 1..Len(p.records) |->
            [j \in 1..Len(p.headers) |->
                IF j <= Len(p.records[i]) THEN p.records[i][j] ELSE EmptyStr]]]

C22_RaggedRecords ==
    Loaded =>
        /\ summary.stats = get_error_summary(Squared(processor)).stats
        /\ summary.total_errors = get_error_summary(Squared(processor)).total_errors

(***************************************************************************)
(* C23  Passes never mutate the table: get_error_summary,                  *)
(* count_total_errors and generate_split_export leave headers, records and *)
(* the rule map as they are, so between two fixes every summary, count and *)
(* export call returns what the first one returned; only apply_bulk_fix    *)
(* changes cells.  The stored results of the earlier calls (the displayed  *)
(* summary, the count the last fix returned, the last export) are those of *)
(* a call made now, and the headers and the rule map are those of the      *)
(* construction.                                                           *)
(***************************************************************************)
Constructed == CsvProcessorJS(csvData, rulesData.value)

C23_PassesDoNotMutate ==
    /\ processor.headers = Constructed.headers
    /\ processor.ruleMap = Constructed.ruleMap
    /\ nfix = 0 => processor.records = Constructed.records
    /\ summary = get_error_summary(processor)
    /\ fixReturn # <<>> => fixReturn[1] = count_total_errors(processor)
    /\ ExportIsCurrent => exported[1] = generate_split_export(processor)

\* An export after a fix that changed a cell and left errors: the summary
\* taken before the export is still the summary of the table.
C23_Witness ==
    /\ ExportIsCurrent
    /\ nfix > 0
    /\ processor.records # Constructed.records
    /\ summary.total_errors > 0
    /\ fixReturn = <<summary.total_errors>>
    /\ summary = get_error_summary(processor)

(***************************************************************************)
(* C24  Export headers: the first line of the invalid output is the        *)
(* headers followed by one more, last column named Error_Reason; the first *)
(* line of the valid output is the headers and nothing else; for every     *)
(* table, also after fixes.                                                *)
(***************************************************************************)
FirstLine(text) == split(text, Newline)[1]

C24_ExportHeaders ==
    ExportIsCurrent =>
        /\ split(FirstLine(exported[1].valid), Comma) = processor.headers
        /\ split(FirstLine(exported[1].invalid), Comma) =
               Append(processor.headers, Tail(str_Error_Reason))

\* An export after a fix, for the headers a, b.
C24_Witness ==
    /\ ExportIsCurrent
    /\ nfix > 0
    /\ processor.records # Constructed.records
    /\ processor.headers = <<str_a, str_b>>
    /\ FirstLine(exported[1].valid) = <<"a", ",", "b">>
    /\ FirstLine(exported[1].invalid) = <<"a", ",", "b">> \o str_Error_Reason

(***************************************************************************)
(* C25  The rule set of a processor is fixed at construction: a rule       *)
(* builder edit made after the processor was built changes neither the     *)
(* processor nor the displayed summary, and get_error_summary on that      *)
(* processor still returns the summary it returned before; changed rules   *)
(* take effect only through a new handleValidate.                          *)
(***************************************************************************)
C25_RulesFixedAtConstruction ==
    [][rulesData' # rulesData =>
          /\ processor' = processor
          /\ summary' = summary
          /\ Loaded => get_error_summary(processor') = summary]_vars

\* A processor whose rules are no longer those of the rules box, which
\* would give another summary, while the displayed summary is still that of
\* the processor.
C25_Witness ==
    /\ Loaded
    /\ timers = <<>>
    /\ rulesData.value # processor.rules
    /\ summary = get_error_summary(processor)
    /\ get_error_summary(CsvProcessorJS(csvData, rulesData.value)) # summary

(***************************************************************************)
(* C27  A reset is not undone by a pending validation: once clearFile or   *)
(* handleFileUpload has set the processor to null it stays null until      *)
(* handleValidate is called again; a timer that was set before the reset   *)
(* installs no processor when it fires.                                    *)
(***************************************************************************)
StaleTimerFires == timers # <<>> /\ Head(timers).stale /\ timers' = Tail(timers)

C27_ResetNotUndone == [][StaleTimerFires => processor' = NullProcessor]_vars

(***************************************************************************)
(* C26  Sync-back after fix: when handleBulkFix has replaced a value, the  *)
(* csvData the component holds is the serialization of the processor's     *)
(* table after the fix (header line, then one line per record), so that a  *)
(* later handleRevalidate builds its processor from the fixed data.        *)
(***************************************************************************)
Serialized(p) ==
    join(<<join(p.headers, Comma)>> \o [i \in 1..Len(p.records) |-> RecordLine(p, i)], Newline)

BulkFixReplaced ==
    /\ nfix' = nfix + 1
    /\ processor'.records # processor.records

C28_ProcessingFinishes == isProcessing ~> ~isProcessing

(***************************************************************************)
(* C29  Summary matches current inputs: once no timer and no file read is  *)
(* pending in DataAirlock and no fix has been applied, the installed       *)
(* processor is the one constructed from the current csvData under the     *)
(* current rules state, and the displayed summary is its summary.          *)
(***************************************************************************)
Quiescent == timers = <<>> /\ reads = <<>>

C29_SummaryMatchesInputs ==
    (Quiescent /\ Loaded /\ nfix = 0) =>
        /\ processor = CsvProcessorJS(csvData, rulesData.value)
        /\ summary = get_error_summary(CsvProcessorJS(csvData, rulesData.value))

====
